---------------------------- MODULE Spec2Model ----------------------------
(***************************************************************************)
(* Link analysis of the disaster response system (Link_analytics.py):      *)
(* the co-occurrence graph of locations built from the alert records, and  *)
(* the centrality, community, risk and spread-path analysis run on it.     *)
(***************************************************************************)
EXTENDS Integers, Sequences, FiniteSets, TLC

VARIABLES
    df,         \* the records under analysis, in DataFrame row order
    pc,         \* position of the running function
    nodes,      \* G's nodes in insertion order
    adj,        \* G's adjacency: node -> its neighbours in insertion order
    eattr,      \* G's edge attributes: {u, v} -> [weight, disasters]
    d, i, j,    \* build_location_graph's loop positions (1-based)
    prevG,      \* the graph returned by the previous build, or NoGraph
    centrality, \* nx.degree_centrality(G): node -> value
    betweenness, \* nx.betweenness_centrality(G): node -> value
    louv,       \* the running louvain_communities call: level graph, partitions, sweep
    communities, \* the list of communities louvain_communities returned
    loc_alert_levels, \* location -> mean alert_level of its records
    results,    \* analyze_disaster_spread's result lists
    stored,     \* the documents of disaster_alerts followed by those of realtime_alerts
    viz_file,   \* the file visualize_disaster_network wrote
    report,     \* what generate_link_analysis_report returned
    prevReport, \* what the previous run over the same documents returned
    link_analysis_reports, \* the documents of the link_analysis_reports collection
    batch_pc,   \* position of daily_batch_processing
    output_dir, \* what run_mapreduce_job returned
    launched    \* the commands the batch steps ran so far, each with how it ended

vars == <<df, pc, nodes, adj, eattr, d, i, j, prevG, centrality, betweenness,
          louv, communities, loc_alert_levels, results,
          stored, viz_file, report, prevReport, link_analysis_reports,
          batch_pc, output_dir, launched>>

\* the variables of generate_link_analysis_report
rvars == <<stored, viz_file, report, prevReport, link_analysis_reports>>

\* the variables of daily_batch_processing
ovars == <<batch_pc, output_dir, launched>>

\* the variables of analyze_disaster_spread
avars == <<centrality, betweenness, louv, communities, loc_alert_levels, results>>

\* the variables of build_location_graph
bvars == <<nodes, adj, eattr, d, i, j, prevG>>

-----------------------------------------------------------------------------
(* Bounds and value sets *)

MaxRecords == 5

BuildLocations == {"A", "B", "C"}
BuildTypes == {"flood", "earthquake"}
BuildRecords == [location : BuildLocations, disaster_type : BuildTypes, alert_level : {1}]

-----------------------------------------------------------------------------
(* Sequences *)

Range(s) == {s[k] : k \in 1..Len(s)}

SeqsUpTo(S, n) == UNION {[1..k -> S] : k \in 0..n}

\* pandas' unique(): the distinct values in order of first appearance
Unique(s) ==
    LET first == {k \in 1..Len(s) : \A m \in 1..(k - 1) : s[m] # s[k]}
    IN [n \in 1..Cardinality(first) |->
           s[CHOOSE k \in first : Cardinality({m \in first : m <= k}) = n]]

Column(frame, col) == [k \in 1..Len(frame) |-> frame[k][col]]

\* pandas' missing value: what a row holds in a column its document lacks
NaN == "NaN"

\* df[df[col] == val]: a missing value equals nothing, itself included
Filter(frame, col, val) == SelectSeq(frame, LAMBDA r : r[col] # NaN /\ r[col] = val)

-----------------------------------------------------------------------------
(* build_location_graph *)

NoGraph == [nodes |-> {"none"}, edges |-> <<>>]

\* nothing written, nothing returned yet
NoFile == "none"
NoReport == [kind |-> "none"]

\* Python's None
None == "None"

\* daily_batch_processing not running
NoBatch ==
    /\ batch_pc = "idle"
    /\ output_dir = None
    /\ launched = <<>>

\* The graph as a value: node set and attributed edge set
GraphValue(ns, ea) == [nodes |-> Range(ns), edges |-> ea]

Locations(frame) == Unique(Column(frame, "location"))

DisasterTypesNoUnique(frame) == Column(frame, "disaster_type")

DisasterTypes(frame) == Unique(Column(frame, "disaster_type"))

AffectedLocationsNoUnique(frame, disaster) ==
    Column(Filter(frame, "disaster_type", disaster), "location")

AffectedLocations(frame, disaster) ==
    Unique(Column(Filter(frame, "disaster_type", disaster), "location"))

HasEdge(a, u, v) == u \in DOMAIN a /\ v \in Range(a[u])

\* G.add_node for every location
AddNodesNone(locs) == <<>>

AddNodes(locs) == locs

\* for a pair already connected: weight += 1, disasters.add(disaster)
UpdateEdgeNoAdd(attr, disaster) ==
    [weight |-> attr.weight + 1, disasters |-> attr.disasters]

UpdateEdge(attr, disaster) ==
    [weight |-> attr.weight + 1, disasters |-> attr.disasters \cup {disaster}]

\* G.add_edge(loc1, loc2, weight=1, disasters={disaster})
NewEdge(disaster) == [weight |-> 1, disasters |-> {disaster}]

\* add_edge adds an endpoint that is not yet a node
AddMissing(ns, u) == IF u \in Range(ns) THEN ns ELSE Append(ns, u)

AddAdj(a, u, v) ==
    LET a1 == IF u \in DOMAIN a THEN a ELSE a @@ (u :> <<>>)
        a2 == IF v \in DOMAIN a1 THEN a1 ELSE a1 @@ (v :> <<>>)
        a3 == [a2 EXCEPT ![u] = Append(@, v)]
    IN IF u = v THEN a3 ELSE [a3 EXCEPT ![v] = Append(@, u)]

BuildInit(frame) ==
    /\ df = frame
    /\ pc = "build_start"
    /\ nodes = <<>>
    /\ adj = <<>>
    /\ eattr = <<>>
    /\ d = 1 /\ i = 1 /\ j = 1
    /\ prevG = NoGraph
    /\ centrality = <<>>
    /\ betweenness = <<>>
    /\ louv = <<>>
    /\ communities = <<>>
    /\ loc_alert_levels = <<>>
    /\ results = <<>>
    /\ stored = <<>>
    /\ viz_file = NoFile
    /\ report = NoReport
    /\ prevReport = NoReport
    /\ link_analysis_reports = <<>>
    /\ NoBatch

\* G = nx.Graph(); one node per distinct location
BuildStart ==
    /\ pc = "build_start"
    /\ nodes' = AddNodes(Locations(df))
    /\ adj' = [n \in Range(AddNodes(Locations(df))) |-> <<>>]
    /\ eattr' = <<>>
    /\ d' = 1 /\ i' = 1 /\ j' = 1
    /\ pc' = "for_disaster"
    /\ UNCHANGED <<df, prevG, avars, rvars, ovars>>

\* for disaster in disaster_types: ... if len(affected_locations) > 1
ForDisaster ==
    /\ pc = "for_disaster"
    /\ IF d > Len(DisasterTypes(df))
       THEN /\ pc' = "built"
            /\ UNCHANGED <<d, i, j>>
       ELSE LET affected == AffectedLocations(df, DisasterTypes(df)[d])
            IN IF Len(affected) > 1
               THEN /\ pc' = "for_pair"
                    /\ i' = 1 /\ j' = 2
                    /\ d' = d
               ELSE /\ pc' = "for_disaster"
                    /\ d' = d + 1
                    /\ UNCHANGED <<i, j>>
    /\ UNCHANGED <<df, nodes, adj, eattr, prevG, avars, rvars, ovars>>

\* the body of the two nested loops for the pair (i, j), then the loop step
ForPair ==
    /\ pc = "for_pair"
    /\ LET disaster == DisasterTypes(df)[d]
           affected == AffectedLocations(df, disaster)
           loc1 == affected[i]
           loc2 == affected[j]
           n == Len(affected)
       IN /\ IF HasEdge(adj, loc1, loc2)
             THEN /\ eattr' = [eattr EXCEPT ![{loc1, loc2}] = UpdateEdge(@, disaster)]
                  /\ UNCHANGED <<adj, nodes>>
             ELSE /\ eattr' = eattr @@ ({loc1, loc2} :> NewEdge(disaster))
                  /\ adj' = AddAdj(adj, loc1, loc2)
                  /\ nodes' = AddMissing(AddMissing(nodes, loc1), loc2)
          /\ IF j < n
             THEN /\ j' = j + 1
                  /\ UNCHANGED <<i, d, pc>>
             ELSE IF i + 2 <= n
                  THEN /\ i' = i + 1
                       /\ j' = i + 2
                       /\ UNCHANGED <<d, pc>>
                  ELSE /\ d' = d + 1
                       /\ pc' = "for_disaster"
                       /\ UNCHANGED <<i, j>>
    /\ UNCHANGED <<df, prevG, avars, rvars, ovars>>

-----------------------------------------------------------------------------
(* Building again from a reordered or extended collection *)

Swap(s, k) ==
    [m \in 1..Len(s) |-> IF m = k THEN s[k + 1] ELSE IF m = k + 1 THEN s[k] ELSE s[m]]

\* the same records in another order
RebuildPermuted ==
    /\ pc = "built"
    /\ \E k \in 1..(Len(df) - 1) : df' = Swap(df, k)
    /\ prevG' = GraphValue(nodes, eattr)
    /\ pc' = "build_start"
    /\ UNCHANGED <<nodes, adj, eattr, d, i, j, avars, rvars, ovars>>

\* one more record for a (location, disaster_type) already present
RebuildDuplicated ==
    /\ pc = "built"
    /\ Len(df) < MaxRecords
    /\ \E k \in 1..Len(df) : df' = Append(df, df[k])
    /\ prevG' = GraphValue(nodes, eattr)
    /\ pc' = "build_start"
    /\ UNCHANGED <<nodes, adj, eattr, d, i, j, avars, rvars, ovars>>

InitBuild == \E frame \in SeqsUpTo(BuildRecords, MaxRecords) : BuildInit(frame)

NextBuild ==
    \/ BuildStart
    \/ ForDisaster
    \/ ForPair
    \/ RebuildPermuted
    \/ RebuildDuplicated

SpecBuild == InitBuild /\ [][NextBuild]_vars

-----------------------------------------------------------------------------
(* Properties of the built graph *)

EdgeSet == DOMAIN eattr

Degree(u) == IF u \in DOMAIN adj THEN Len(adj[u]) ELSE 0

\* the disaster types with a record at u and a record at v
SharedTypes(frame, u, v) ==
    {t \in Range(Column(frame, "disaster_type")) \ {NaN} :
        /\ \E k \in 1..Len(frame) : frame[k].location = u /\ frame[k].disaster_type = t
        /\ \E k \in 1..Len(frame) : frame[k].location = v /\ frame[k].disaster_type = t}

LocDisasterPairs(frame) ==
    {<<frame[k].location, frame[k].disaster_type>> : k \in 1..Len(frame)}

\* C1: at every point of the build, after each edge creation or update, and
\* in the returned graph, every edge's weight is the number of elements of
\* its disaster-type set.
C1_WeightIsTypeCount ==
    \A e \in EdgeSet : eattr[e].weight = Cardinality(eattr[e].disasters)

\* a returned graph with an edge updated for a second disaster type, built
\* from records that repeat a (location, disaster_type)
C1_Witness ==
    /\ pc = "built"
    /\ \E e \in EdgeSet : eattr[e].weight = 2
    /\ Cardinality(LocDisasterPairs(df)) < Len(df)

\* C2: the returned graph has an edge between u and v iff u # v and some
\* disaster type has a record at u and a record at v; the edge's type set is
\* exactly the set of those shared types; there is no self-loop.
C2_EdgeIffSharedType ==
    pc = "built" =>
        /\ \A u, v \in Range(Column(df, "location")) :
              /\ ({u, v} \in EdgeSet) <=> (u # v /\ SharedTypes(df, u, v) # {})
              /\ {u, v} \in EdgeSet => eattr[{u, v}].disasters = SharedTypes(df, u, v)
        /\ \A e \in EdgeSet : Cardinality(e) = 2 /\ e \subseteq Range(Column(df, "location"))
        /\ \A u \in DOMAIN adj : u \notin Range(adj[u])
        /\ \A u, v \in DOMAIN adj : HasEdge(adj, u, v) <=> {u, v} \in EdgeSet

\* a returned graph with an edge of two shared types and an edge whose type
\* set leaves out a disaster type present at only one of its endpoints
C2_Witness ==
    /\ pc = "built"
    /\ \E e \in EdgeSet : Cardinality(eattr[e].disasters) = 2
    /\ \E e \in EdgeSet : \E u \in e :
          eattr[e].disasters # Range(Column(Filter(df, "location", u), "disaster_type"))

\* C3: the node set of the returned graph is exactly the set of distinct
\* locations of the records; a location whose disaster types have no other
\* location is a node of degree 0, and a disaster type with exactly one
\* location adds no edge.
C3_NodesAreLocations ==
    pc = "built" =>
        /\ Range(nodes) = Range(Column(df, "location"))
        /\ DOMAIN adj = Range(nodes)
        /\ Len(nodes) = Cardinality(Range(nodes))
        /\ \A u \in Range(Column(df, "location")) :
              (\A v \in Range(Column(df, "location")) \ {u} : SharedTypes(df, u, v) = {})
                  => u \in Range(nodes) /\ Degree(u) = 0
        /\ \A t \in Range(Column(df, "disaster_type")) :
              Len(AffectedLocations(df, t)) = 1 =>
                  \A e \in EdgeSet : t \notin eattr[e].disasters

\* a returned graph with an isolated node next to an edge
C3_Witness ==
    /\ pc = "built"
    /\ \E u \in Range(nodes) : Degree(u) = 0
    /\ EdgeSet # {}

\* C4: the built graph depends only on the set of (location, disaster_type)
\* pairs: building again after reordering the records (which also reorders
\* the disaster types) or after adding a duplicate of an existing pair
\* returns the same nodes, edges, weights and type sets.
C4_OrderAndDuplicateIndependent ==
    (pc = "built" /\ prevG # NoGraph) => GraphValue(nodes, eattr) = prevG

\* a second build, from a changed collection, of a graph with a weight-2 edge
C4_Witness ==
    /\ pc = "built"
    /\ prevG # NoGraph
    /\ \E e \in EdgeSet : eattr[e].weight = 2
    /\ Cardinality(LocDisasterPairs(df)) < Len(df)

-----------------------------------------------------------------------------
(* Exact rational numbers [n, d] in lowest terms, d > 0, for the values *)
(* Python holds as floats *)

Abs(x) == IF x < 0 THEN -x ELSE x

RECURSIVE GCD(_, _)
GCD(a, b) == IF b = 0 THEN a ELSE GCD(b, a % b)

Frac(n, dn) ==
    LET g == GCD(Abs(n), Abs(dn))
        sg == IF dn < 0 THEN -1 ELSE 1
    IN [n |-> sg * (n \div g), d |-> sg * (dn \div g)]

Zero == Frac(0, 1)
One == Frac(1, 1)
RAdd(x, y) == Frac(x.n * y.d + y.n * x.d, x.d * y.d)
RMul(x, y) == Frac(x.n * y.n, x.d * y.d)
RDiv(x, y) == Frac(x.n * y.d, x.d * y.n)
RGt(x, y) == x.n * y.d > y.n * x.d
RGe(x, y) == x.n * y.d >= y.n * x.d

RECURSIVE RSum(_, _)
\* the sum of f[x] over the set S
RSum(f, S) ==
    IF S = {} THEN Zero
    ELSE LET x == CHOOSE x \in S : TRUE IN RAdd(f[x], RSum(f, S \ {x}))

-----------------------------------------------------------------------------
(* analyze_disaster_spread: the network metrics *)

\* the value nx.degree_centrality gives every node of a graph of at most one node
SingleNodeCentrality == One

\* nx.degree_centrality(G)
DegreeCentralityByOrder(ns, a) ==
    [n \in Range(ns) |-> Frac(Len(a[n]), Len(ns))]

DegreeCentrality(ns, a) ==
    [n \in Range(ns) |->
        IF Len(ns) <= 1 THEN SingleNodeCentrality
        ELSE Frac(Len(a[n]), Len(ns) - 1)]

\* breadth-first search from s: visit order S, predecessors P, path counts
\* sigma, distances D (-1: not reached)
RECURSIVE Relax(_, _, _, _)
Relax(a, v, st, k) ==
    IF k > Len(a[v]) THEN st
    ELSE LET w == a[v][k]
             st1 == IF st.D[w] < 0
                    THEN [st EXCEPT !.Q = Append(@, w), !.D[w] = st.D[v] + 1]
                    ELSE st
             st2 == IF st1.D[w] = st.D[v] + 1
                    THEN [st1 EXCEPT !.sigma[w] = @ + st.sigma[v], !.P[w] = Append(@, v)]
                    ELSE st1
         IN Relax(a, v, st2, k + 1)

RECURSIVE BFSLoop(_, _)
BFSLoop(a, st) ==
    IF st.Q = <<>> THEN st
    ELSE LET v == Head(st.Q)
         IN BFSLoop(a, Relax(a, v, [st EXCEPT !.Q = Tail(@), !.S = Append(@, v)], 1))

ShortestPathBasic(ns, a, s) ==
    BFSLoop(a, [Q |-> <<s>>, S |-> <<>>,
                P |-> [n \in Range(ns) |-> <<>>],
                sigma |-> [n \in Range(ns) |-> IF n = s THEN 1 ELSE 0],
                D |-> [n \in Range(ns) |-> IF n = s THEN 0 ELSE -1]])

RECURSIVE AddToPreds(_, _, _, _, _)
\* for v in P[w]: delta[v] += sigma[v] * coeff
AddToPreds(delta, preds, sigma, coeff, k) ==
    IF k > Len(preds) THEN delta
    ELSE AddToPreds([delta EXCEPT ![preds[k]] = RAdd(@, RMul(Frac(sigma[preds[k]], 1), coeff))],
                    preds, sigma, coeff, k + 1)

RECURSIVE AccumulateBasic(_, _, _, _)
\* dependency accumulation, farthest node first; st holds the loop's
\* betweenness, delta and stack S
AccumulateBasic(st, P, sigma, s) ==
    IF st.S = <<>> THEN st.betweenness
    ELSE LET w == st.S[Len(st.S)]
             coeff == RDiv(RAdd(One, st.delta[w]), Frac(sigma[w], 1))
             delta1 == AddToPreds(st.delta, P[w], sigma, coeff, 1)
         IN AccumulateBasic(
                [betweenness |-> IF w # s THEN [st.betweenness EXCEPT ![w] = RAdd(@, delta1[w])]
                                 ELSE st.betweenness,
                 delta |-> delta1,
                 S |-> SubSeq(st.S, 1, Len(st.S) - 1)],
                P, sigma, s)

RECURSIVE BrandesSum(_, _, _)
\* for s in nodes: search from s, then accumulate; st holds the loop's
\* betweenness and position k
BrandesSum(ns, a, st) ==
    IF st.k > Len(ns) THEN st.betweenness
    ELSE LET bfs == ShortestPathBasic(ns, a, ns[st.k])
         IN BrandesSum(ns, a,
                [betweenness |->
                     AccumulateBasic([betweenness |-> st.betweenness,
                                      delta |-> [n \in Range(ns) |-> Zero],
                                      S |-> bfs.S],
                                     bfs.P, bfs.sigma, ns[st.k]),
                 k |-> st.k + 1])

\* the factor applied when normalized=False on an undirected graph
RescaleRaw(bet, n) == [v \in DOMAIN bet |-> RMul(bet[v], Frac(1, 2))]

\* _rescale with normalized=True, the default of betweenness_centrality
Rescale(bet, n) ==
    IF n <= 2 THEN bet
    ELSE [v \in DOMAIN bet |-> RMul(bet[v], Frac(1, (n - 1) * (n - 2)))]

\* nx.betweenness_centrality(G)
BetweennessCentrality(ns, a) ==
    Rescale(BrandesSum(ns, a, [betweenness |-> [n \in Range(ns) |-> Zero], k |-> 1]), Len(ns))

\* centrality = nx.degree_centrality(G); betweenness = nx.betweenness_centrality(G)
ComputeCentrality ==
    /\ pc = "built"
    /\ centrality' = DegreeCentrality(nodes, adj)
    /\ betweenness' = BetweennessCentrality(nodes, adj)
    /\ pc' = "metrics"
    /\ UNCHANGED <<df, bvars, rvars, ovars, louv, communities, loc_alert_levels, results>>

-----------------------------------------------------------------------------
(* analyze_disaster_spread: nx.community.louvain_communities(G), with the *)
(* defaults weight="weight", resolution=1, threshold=1e-7, seed=None      *)

\* G.edges(): each edge once, by node order then neighbour order
RECURSIVE EdgeList(_, _, _)
EdgeList(ns, a, k) ==
    IF k > Len(ns) THEN <<>>
    ELSE LET unseen == SelectSeq(a[ns[k]], LAMBDA v : v \notin {ns[x] : x \in 1..(k - 1)})
         IN [x \in 1..Len(unseen) |-> <<ns[k], unseen[x]>>] \o EdgeList(ns, a, k + 1)

\* add_edge(u, v, weight=wt) on a level graph
SetEdgeWeight(g, u, v, wt) ==
    IF {u, v} \in DOMAIN g.w
    THEN [g EXCEPT !.w[{u, v}] = wt]
    ELSE [g EXCEPT !.w = @ @@ ({u, v} :> wt), !.adj = AddAdj(@, u, v)]

RECURSIVE CopyEdges(_, _, _, _)
CopyEdges(g, edges, ea, k) ==
    IF k > Len(edges) THEN g
    ELSE CopyEdges(SetEdgeWeight(g, edges[k][1], edges[k][2],
                                 ea[{edges[k][1], edges[k][2]}].weight),
                   edges, ea, k + 1)

\* graph = G.__class__(); add_nodes_from(G); add_weighted_edges_from(G.edges(data=weight))
LouvainCopy(ns, a, ea) ==
    CopyEdges([nodes |-> ns, adj |-> [n \in Range(ns) |-> <<>>], w |-> <<>>,
               members |-> [n \in Range(ns) |-> {n}]],
              EdgeList(ns, a, 1), ea, 1)

RECURSIVE SumSeq(_)
SumSeq(q) == IF q = <<>> THEN 0 ELSE q[1] + SumSeq(Tail(q))

RECURSIVE SumOver(_, _)
SumOver(f, S) ==
    IF S = {} THEN 0
    ELSE LET x == CHOOSE x \in S : TRUE IN f[x] + SumOver(f, S \ {x})

\* G.degree(weight="weight"): a self-loop counts twice
LDegree(g, u) ==
    SumSeq([k \in 1..Len(g.adj[u]) |->
               IF g.adj[u][k] = u THEN 2 * g.w[{u}] ELSE g.w[{u, g.adj[u][k]}]])

\* graph.size(weight="weight")
GraphSize(g) == SumOver(g.w, DOMAIN g.w)

\* nx.community.modularity(g, parts, weight="weight") as an exact fraction
Modularity(g, parts) ==
    LET deg == [u \in Range(g.nodes) |-> LDegree(g, u)]
        deg_sum == SumOver(deg, Range(g.nodes))
        contribution == [c \in 1..Len(parts) |->
            2 * deg_sum * SumOver(g.w, {e \in DOMAIN g.w : e \subseteq parts[c]})
              - SumOver(deg, parts[c]) * SumOver(deg, parts[c])]
    IN Frac(SumSeq(contribution), deg_sum * deg_sum)

\* new_mod - mod <= threshold, threshold = 0.0000001
WithinThreshold(new_mod, mod) ==
    LET diff == RAdd(new_mod, Frac(-mod.n, mod.d))
    IN diff.n <= 0 \/ diff.d \div diff.n >= 10000000

RECURSIVE NeighborWeights(_, _, _, _, _)
\* _neighbor_weights: community -> weight of u's edges into it, as a list of
\* <<community, weight>> in order of first appearance among u's neighbours
NeighborWeights(g, u, node2com, acc, k) ==
    IF k > Len(g.adj[u]) THEN acc
    ELSE LET v == g.adj[u][k]
             c == node2com[v]
             wt == g.w[{u, v}]
             at == {x \in 1..Len(acc) : acc[x][1] = c}
             acc1 == IF v = u THEN acc
                     ELSE IF at = {} THEN Append(acc, <<c, wt>>)
                     ELSE [acc EXCEPT ![CHOOSE x \in at : TRUE] = <<c, @[2] + wt>>]
         IN NeighborWeights(g, u, node2com, acc1, k + 1)

\* weights2com[best_com] on the defaultdict: adds the node's own community
\* with weight 0 when no neighbour is in it
WithOwn(w2c, own) ==
    IF \E x \in 1..Len(w2c) : w2c[x][1] = own THEN w2c ELSE Append(w2c, <<own, 0>>)

WeightTo(w2c, c) == (CHOOSE x \in Range(w2c) : x[1] = c)[2]

\* remove_cost + wt / m - resolution * (Stot[nbr_com] * degree) / (2 * m**2),
\* multiplied by 2 * m**2
GainNoRemoveCost(m, w2c, Stot, own, degree, c) ==
    2 * m * WeightTo(w2c, c) - Stot[c] * degree

Gain(m, w2c, Stot, own, degree, c) ==
    (Stot[own] * degree - 2 * m * WeightTo(w2c, own))
        + 2 * m * WeightTo(w2c, c) - Stot[c] * degree

RECURSIVE BestCommunity(_, _, _, _, _, _, _, _)
\* the first community of the list with the largest gain above 0
BestCommunity(m, w2c, Stot, own, degree, best_mod, best_com, k) ==
    IF k > Len(w2c) THEN best_com
    ELSE LET gain == Gain(m, w2c, Stot, own, degree, w2c[k][1])
         IN IF gain > best_mod
            THEN BestCommunity(m, w2c, Stot, own, degree, gain, w2c[k][1], k + 1)
            ELSE BestCommunity(m, w2c, Stot, own, degree, best_mod, best_com, k + 1)

\* partition[node2com[u]].difference_update(com)
LeaveKeep(part, com) == part

Leave(part, com) == part \ com

Shuffles(q) == {p \in [1..Len(q) -> Range(q)] : Range(p) = Range(q)}

\* the start of _one_level on level graph g with the shuffled order perm
OneLevelEnter(g, m, mod, partition, perm, level) ==
    [graph |-> g, m |-> m, mod |-> mod, level |-> level,
     node2com |-> [u \in Range(g.nodes) |-> CHOOSE k \in 1..Len(g.nodes) : g.nodes[k] = u],
     partition |-> partition,
     inner |-> [k \in 1..Len(g.nodes) |-> {g.nodes[k]}],
     Stot |-> [k \in 1..Len(g.nodes) |-> LDegree(g, g.nodes[k])],
     rand_nodes |-> perm, pos |-> 1, nb_moves |-> 0, improvement |-> FALSE]

RECURSIVE GenEdges(_, _, _, _, _)
\* for node1, node2, wt in G.edges(data=True): add the weight to the edge
\* between the two communities (hv: the graph so far, as a value)
GenEdges(h, g, edges, n2c, k) ==
    IF k > Len(edges) THEN h
    ELSE CHOOSE next \in
             {LET com1 == n2c[edges[k][1]]
                  com2 == n2c[edges[k][2]]
                  wt == g.w[{edges[k][1], edges[k][2]}]
                  temp == IF {com1, com2} \in DOMAIN hv.w THEN hv.w[{com1, com2}] ELSE 0
              IN GenEdges(SetEdgeWeight(hv, com1, com2, wt + temp), g, edges, n2c, k + 1) :
                 hv \in {h}} : TRUE

\* _gen_graph: one node per community, edge weights summed, the weight
\* inside a community kept as a self-loop
GenGraph(g, inner) ==
    LET n2c == [u \in UNION Range(inner) |-> CHOOSE k \in 1..Len(inner) : u \in inner[k]]
        h0 == [nodes |-> [k \in 1..Len(inner) |-> k],
               adj |-> [k \in 1..Len(inner) |-> <<>>],
               w |-> <<>>,
               members |-> [k \in 1..Len(inner) |-> UNION {g.members[u] : u \in inner[k]}]]
    IN GenEdges(h0, g, EdgeList(g.nodes, g.adj, 1), n2c, 1)

NonEmpty(parts) == SelectSeq(parts, LAMBDA c : c # {})

\* louvain_communities up to the first shuffle: an edgeless graph returns
\* the singletons
LouvainStart ==
    /\ pc = "metrics"
    /\ LET partition == [k \in 1..Len(nodes) |-> {nodes[k]}]
           g == LouvainCopy(nodes, adj, eattr)
       IN IF EdgeSet = {}
          THEN /\ communities' = partition
               /\ louv' = <<>>
               /\ pc' = "communities"
          ELSE /\ \E perm \in Shuffles(nodes) :
                     louv' = OneLevelEnter(g, GraphSize(g), Modularity(g, partition),
                                           partition, perm, 1)
               /\ pc' = "one_level"
               /\ UNCHANGED communities
    /\ UNCHANGED <<df, bvars, rvars, ovars, centrality, betweenness, loc_alert_levels, results>>

\* _one_level: the loop body for the node u = rand_nodes[pos], then the step
\* of the for loop and of the enclosing while nb_moves > 0
MoveNode ==
    /\ pc = "one_level"
    /\ LET g == louv.graph
           u == louv.rand_nodes[louv.pos]
           own == louv.node2com[u]
           degree == LDegree(g, u)
           Stot1 == [louv.Stot EXCEPT ![own] = @ - degree]
           com == g.members[u]
       IN \E w2c \in {WithOwn(NeighborWeights(g, u, louv.node2com, <<>>, 1), own)} :
          \E best \in {BestCommunity(louv.m, w2c, Stot1, own, degree, 0, own, 1)} :
             LET Stot2 == [Stot1 EXCEPT ![best] = @ + degree]
                 moved == best # own
                 l1 == IF moved
                       THEN [louv EXCEPT
                               !.Stot = Stot2,
                               !.partition = [[@ EXCEPT ![own] = Leave(@, com)]
                                                 EXCEPT ![best] = @ \cup com],
                               !.inner = [[@ EXCEPT ![own] = @ \ {u}]
                                             EXCEPT ![best] = @ \cup {u}],
                               !.improvement = TRUE,
                               !.nb_moves = @ + 1,
                               !.node2com[u] = best]
                       ELSE [louv EXCEPT !.Stot = Stot2]
             IN IF louv.pos < Len(louv.rand_nodes)
                THEN /\ louv' = [l1 EXCEPT !.pos = @ + 1]
                     /\ pc' = "one_level"
                ELSE IF l1.nb_moves > 0
                     THEN /\ louv' = [l1 EXCEPT !.pos = 1, !.nb_moves = 0]
                          /\ pc' = "one_level"
                     ELSE /\ louv' = [l1 EXCEPT !.partition = NonEmpty(@),
                                                !.inner = NonEmpty(@)]
                          /\ pc' = "level_done"
    /\ UNCHANGED <<df, bvars, rvars, ovars, centrality, betweenness, communities, loc_alert_levels, results>>

\* louvain_partitions' while loop after a level: yield the partition, stop
\* when the modularity gained is within the threshold or the level moved
\* nothing, else aggregate and run the next level
LevelDone ==
    /\ pc = "level_done"
    /\ \E new_mod \in {Modularity(louv.graph, louv.inner)} :
          IF louv.level > 1 /\ ~louv.improvement
          THEN /\ pc' = "communities"
               /\ louv' = <<>>
               /\ UNCHANGED communities
          ELSE IF WithinThreshold(new_mod, louv.mod)
               THEN /\ communities' = louv.partition
                    /\ louv' = <<>>
                    /\ pc' = "communities"
               ELSE /\ communities' = louv.partition
                    /\ \E h \in {GenGraph(louv.graph, louv.inner)} :
                       \E perm \in Shuffles(h.nodes) :
                          louv' = OneLevelEnter(h, louv.m, new_mod, louv.partition, perm,
                                                louv.level + 1)
                    /\ pc' = "one_level"
    /\ UNCHANGED <<df, bvars, rvars, ovars, centrality, betweenness, loc_alert_levels, results>>

-----------------------------------------------------------------------------
(* analyze_disaster_spread: the result lists *)

RECURSIVE LexGt(_, _)
\* Python's tuple comparison a > b on keys of equal length
LexGt(a, b) ==
    IF a = <<>> THEN FALSE
    ELSE IF RGt(a[1], b[1]) THEN TRUE
    ELSE IF RGt(b[1], a[1]) THEN FALSE
    ELSE LexGt(Tail(a), Tail(b))

\* x goes before the first entry with a smaller key: entries with equal
\* keys keep their order
InsertDesc(sorted, x) ==
    LET at == Cardinality({k \in 1..Len(sorted) : ~LexGt(x.key, sorted[k].key)})
    IN SubSeq(sorted, 1, at) \o <<x>> \o SubSeq(sorted, at + 1, Len(sorted))

RECURSIVE SortDesc(_)
\* list.sort(key=..., reverse=True) on entries [key, item]: stable
SortDesc(q) ==
    IF q = <<>> THEN <<>>
    ELSE InsertDesc(SortDesc(SubSeq(q, 1, Len(q) - 1)), q[Len(q)])

Items(q) == [k \in 1..Len(q) |-> q[k].item]

\* df.groupby('location')['alert_level'].mean().to_dict()
MeanAlertLevels(frame) ==
    [l \in Range(Column(frame, "location")) \ {NaN} |->
        LET rows == Column(Filter(frame, "location", l), "alert_level")
        IN Frac(SumSeq(rows), Len(rows))]

\* risk_score > 0.5
RiskAboveOrAt(score) == RGe(score, Frac(1, 2))

RiskAbove(score) == RGt(score, Frac(1, 2))

\* risk_score = cent * loc_alert_levels[loc]
RiskScoreInverse(cent, alert) == RDiv(cent, alert)

RiskScore(cent, alert) == RMul(cent, alert)

RECURSIVE RiskEntries(_, _, _, _)
\* for loc, cent in centrality.items(): ... append when above the threshold
RiskEntries(ns, cent, alerts, k) ==
    IF k > Len(ns) THEN <<>>
    ELSE LET loc == ns[k]
             risk_score == RiskScore(cent[loc], alerts[loc])
             entry == [location |-> loc, centrality |-> cent[loc],
                       alert_level |-> alerts[loc], risk_score |-> risk_score]
         IN (IF loc \in DOMAIN alerts /\ RiskAbove(risk_score)
             THEN <<[key |-> <<risk_score>>, item |-> entry]>>
             ELSE <<>>) \o RiskEntries(ns, cent, alerts, k + 1)

\* np.mean([loc_alert_levels.get(loc, 0) for loc in community_list])
AvgAlertLevel(community, alerts) ==
    RDiv(RSum([l \in community |-> IF l \in DOMAIN alerts THEN alerts[l] ELSE Zero], community),
         Frac(Cardinality(community), 1))

\* len(community_list) > 1
AtLeastOne(community) == Cardinality(community) >= 1

MoreThanOne(community) == Cardinality(community) > 1

RECURSIVE ClusterEntries(_, _, _)
\* for i, community in enumerate(communities): ... if len(community_list) > 1
ClusterEntries(comms, alerts, k) ==
    IF k > Len(comms) THEN <<>>
    ELSE LET cluster == [id |-> k - 1, locations |-> comms[k],
                         size |-> Cardinality(comms[k]),
                         avg_alert_level |-> AvgAlertLevel(comms[k], alerts)]
         IN (IF MoreThanOne(comms[k])
             THEN <<[key |-> <<Frac(cluster.size, 1), cluster.avg_alert_level>>,
                     item |-> cluster]>>
             ELSE <<>>) \o ClusterEntries(comms, alerts, k + 1)

\* edge_betweenness > 0.1
SpreadAbovePositive(b) == RGt(b, Zero)

SpreadAbove(b) == RGt(b, Frac(1, 10))

RECURSIVE SpreadEntries(_, _, _, _)
\* for u, v, data in G.edges(data=True): ... append when above the threshold
SpreadEntries(edges, bet, ea, k) ==
    IF k > Len(edges) THEN <<>>
    ELSE LET u == edges[k][1]
             v == edges[k][2]
             edge_betweenness == RAdd(bet[u], bet[v])
             entry == [from |-> u, to |-> v, betweenness |-> edge_betweenness,
                       shared_disasters |-> ea[{u, v}].disasters,
                       connection_strength |-> ea[{u, v}].weight]
         IN (IF SpreadAbove(edge_betweenness)
             THEN <<[key |-> <<edge_betweenness>>, item |-> entry]>>
             ELSE <<>>) \o SpreadEntries(edges, bet, ea, k + 1)

\* the mean alert levels and the sorted high-risk list
ScoreRisk ==
    /\ pc = "communities"
    /\ loc_alert_levels' = MeanAlertLevels(df)
    /\ results' = [high_risk_locations |->
                       Items(SortDesc(RiskEntries(nodes, centrality, MeanAlertLevels(df), 1))),
                   disaster_clusters |-> <<>>,
                   potential_spread_paths |-> <<>>]
    /\ pc' = "clusters"
    /\ UNCHANGED <<df, bvars, rvars, ovars, centrality, betweenness, louv, communities>>

\* the cluster summaries of the communities of more than one location, sorted
ClusterSummaries ==
    /\ pc = "clusters"
    /\ results' = [results EXCEPT !.disaster_clusters =
                       Items(SortDesc(ClusterEntries(communities, loc_alert_levels, 1)))]
    /\ pc' = "spread_paths"
    /\ UNCHANGED <<df, bvars, rvars, ovars, centrality, betweenness, louv, communities, loc_alert_levels>>

\* the spread paths, sorted; return results
SpreadPaths ==
    /\ pc = "spread_paths"
    /\ results' = [results EXCEPT !.potential_spread_paths =
                       Items(SortDesc(SpreadEntries(EdgeList(nodes, adj, 1), betweenness, eattr, 1)))]
    /\ pc' = "analyzed"
    /\ UNCHANGED <<df, bvars, rvars, ovars, centrality, betweenness, louv, communities, loc_alert_levels>>

-----------------------------------------------------------------------------
(* fetch_disaster_data and generate_link_analysis_report *)

days_back == 7

\* how many days before now a stored timestamp lies
DaysOld(ts) == CASE ts = "yesterday" -> 1 [] ts = "last_month" -> 30

\* df.columns of pd.DataFrame(all_data): every key some document has
Columns(docs) == UNION {DOMAIN docs[k] : k \in 1..Len(docs)}

\* pd.DataFrame(all_data): one row per document, NaN where it lacks a key
DataFrame(docs) ==
    [k \in 1..Len(docs) |->
        [c \in Columns(docs) |-> IF c \in DOMAIN docs[k] THEN docs[k][c] ELSE NaN]]

\* df['timestamp'] >= cutoff_date
Recent(row) == row.timestamp # NaN /\ DaysOld(row.timestamp) <= days_back

\* what fetch_disaster_data returns when MongoDB answers
FetchedFrame(docs) ==
    IF docs = <<>> THEN <<>>
    ELSE IF "timestamp" \in Columns(docs)
         THEN SelectSeq(DataFrame(docs), Recent)
         ELSE DataFrame(docs)

required_columns == <<"location", "disaster_type", "alert_level">>

\* [col for col in required_columns if col not in df.columns]
MissingColumnsAll(frame) == required_columns

MissingColumns(frame) == SelectSeq(required_columns, LAMBDA col : col \notin Columns(frame))

\* the strings returned in place of a report
MissingMessage(missing) ==
    [kind |-> "str", text |-> "Missing required columns: ", columns |-> missing]

NoColumnsMessage == MissingMessage(required_columns)

NoDataMessage == [kind |-> "str", text |-> "No disaster data available for analysis."]

TopRisk == 5
TopPaths == 10

\* q[:n]
SliceAll(q, n) == q

Slice(q, n) == SubSeq(q, 1, IF Len(q) < n THEN Len(q) ELSE n)

\* the report dictionary of the try block (its timestamp, the wall clock,
\* left out)
ReportDict(frame, res, viz) ==
    [kind |-> "dict",
     locations_analyzed |-> Len(Locations(frame)),
     disaster_types_analyzed |-> DisasterTypes(frame),
     high_risk_locations |-> Slice(res.high_risk_locations, TopRisk),
     disaster_clusters |-> res.disaster_clusters,
     potential_spread_paths |-> Slice(res.potential_spread_paths, TopPaths),
     visualization_path |-> viz]

\* the report dictionary of the except block, with the lists whole
ReportDictWhole(frame, res, viz) ==
    [kind |-> "dict",
     locations_analyzed |-> Len(Locations(frame)),
     disaster_types_analyzed |-> DisasterTypes(frame),
     high_risk_locations |-> res.high_risk_locations,
     disaster_clusters |-> res.disaster_clusters,
     potential_spread_paths |-> res.potential_spread_paths,
     visualization_path |-> viz]

\* the report dictionary of the except block
ReportDictAgain(frame, res, viz) ==
    [kind |-> "dict",
     locations_analyzed |-> Len(Locations(frame)),
     disaster_types_analyzed |-> DisasterTypes(frame),
     high_risk_locations |-> Slice(res.high_risk_locations, TopRisk),
     disaster_clusters |-> res.disaster_clusters,
     potential_spread_paths |-> Slice(res.potential_spread_paths, TopPaths),
     visualization_path |-> viz]

\* insert_one adds the new document's _id to the dictionary it is given
Inserted(doc) == doc @@ ("_id" :> "ObjectId")

ReportInit(docs) ==
    /\ stored = docs
    /\ pc = "report_start"
    /\ df = <<>>
    /\ nodes = <<>>
    /\ adj = <<>>
    /\ eattr = <<>>
    /\ d = 1 /\ i = 1 /\ j = 1
    /\ prevG = NoGraph
    /\ centrality = <<>>
    /\ betweenness = <<>>
    /\ louv = <<>>
    /\ communities = <<>>
    /\ loc_alert_levels = <<>>
    /\ results = <<>>
    /\ viz_file = NoFile
    /\ report = NoReport
    /\ prevReport = NoReport
    /\ link_analysis_reports = <<>>
    /\ NoBatch

\* df = fetch_disaster_data(): the recent rows, or an empty frame when
\* MongoDB cannot be reached
FetchData ==
    /\ pc = "report_start"
    /\ \/ df' = FetchedFrame(stored)
       \/ df' = <<>>
    /\ pc' = "fetched"
    /\ UNCHANGED <<bvars, avars, rvars, ovars>>

\* the two early returns: no rows, or a required column missing
CheckData ==
    /\ pc = "fetched"
    /\ IF df = <<>>
       THEN /\ report' = NoDataMessage
            /\ pc' = "returned"
       ELSE IF MissingColumns(df) # <<>>
            THEN /\ report' = MissingMessage(MissingColumns(df))
                 /\ pc' = "returned"
            ELSE /\ pc' = "build_start"
                 /\ UNCHANGED report
    /\ UNCHANGED <<df, bvars, avars, stored, viz_file, prevReport, link_analysis_reports, ovars>>

\* viz_file = visualize_disaster_network(G)
Visualize ==
    /\ pc = "analyzed"
    /\ viz_file' = "disaster_network.png"
    /\ pc' = "visualized"
    /\ UNCHANGED <<df, bvars, avars, stored, report, prevReport, link_analysis_reports, ovars>>

\* build the report, insert it in link_analysis_reports and return it; when
\* MongoDB raises, nothing is inserted, and the report is built again and
\* returned
SaveReport ==
    /\ pc = "visualized"
    /\ \/ /\ report' = Inserted(ReportDict(df, results, viz_file))
          /\ link_analysis_reports' = Append(link_analysis_reports, report')
       \/ /\ report' = ReportDictAgain(df, results, viz_file)
          /\ UNCHANGED link_analysis_reports
    /\ pc' = "returned"
    /\ UNCHANGED <<df, bvars, avars, stored, viz_file, prevReport, ovars>>

\* generate_link_analysis_report called once more on the same collections
RunAgain ==
    /\ pc = "returned"
    /\ prevReport = NoReport
    /\ prevReport' = report
    /\ report' = NoReport
    /\ viz_file' = NoFile
    /\ df' = <<>>
    /\ nodes' = <<>> /\ adj' = <<>> /\ eattr' = <<>>
    /\ d' = 1 /\ i' = 1 /\ j' = 1
    /\ centrality' = <<>> /\ betweenness' = <<>> /\ louv' = <<>>
    /\ communities' = <<>> /\ loc_alert_levels' = <<>> /\ results' = <<>>
    /\ pc' = "report_start"
    /\ UNCHANGED <<stored, prevG, link_analysis_reports, ovars>>

-----------------------------------------------------------------------------
(* The records analysed: what is stored of a feed of alert records *)

MaxAnalyzed == 7

Rec(l, t, a) == [location |-> l, disaster_type |-> t, alert_level |-> a]

AlertFeed ==
    << Rec("A", "flood", 3), Rec("B", "flood", 3), Rec("C", "flood", 3),
       Rec("C", "earthquake", 3), Rec("D", "earthquake", 1), Rec("D", "earthquake", 2),
       Rec("A", "fire", 1), Rec("C", "fire", 2), Rec("B", "fire", 1) >>

\* a second feed: one hub location, two locations that only share neighbours
CorridorFeed ==
    << Rec("A", "flood", 2), Rec("B", "flood", 3), Rec("C", "flood", 1),
       Rec("B", "fire", 2), Rec("C", "fire", 1), Rec("E", "fire", 3),
       Rec("B", "earthquake", 1), Rec("D", "earthquake", 2) >>

RECURSIVE Pick(_, _, _)
\* the records of feed at the positions in keep, in feed order
Pick(feed, keep, k) ==
    IF k > Len(feed) THEN <<>>
    ELSE (IF k \in keep THEN <<feed[k]>> ELSE <<>>) \o Pick(feed, keep, k + 1)

\* one disaster type over five locations
SingleTypeFeed ==
    << Rec("A", "storm", 1), Rec("B", "storm", 2), Rec("C", "storm", 3),
       Rec("D", "storm", 1), Rec("E", "storm", 2) >>

\* two hub locations that share every disaster type, each type with one
\* further location of its own
TwoHubFeed ==
    << Rec("H1", "flood", 2), Rec("H2", "flood", 1), Rec("L1", "flood", 3),
       Rec("H1", "fire", 2), Rec("H2", "fire", 1), Rec("L2", "fire", 2),
       Rec("H1", "storm", 2), Rec("H2", "storm", 1), Rec("L3", "storm", 3),
       Rec("H1", "quake", 2), Rec("H2", "quake", 1), Rec("L4", "quake", 2),
       Rec("H1", "slide", 2), Rec("H2", "slide", 1), Rec("L5", "slide", 3) >>

\* two groups of three locations with one location in both
BowtieFeed ==
    << Rec("A", "flood", 3), Rec("B", "flood", 3), Rec("C", "flood", 1),
       Rec("C", "fire", 1), Rec("D", "fire", 1), Rec("E", "fire", 1) >>

\* four locations whose communities Louvain merges at its second level
TwoLevelFeed ==
    << Rec("B", "flood", 2), Rec("A", "flood", 3), Rec("C", "flood", 1),
       Rec("C", "fire", 2), Rec("A", "fire", 1), Rec("B", "storm", 3),
       Rec("D", "storm", 2), Rec("D", "quake", 1), Rec("A", "quake", 2) >>

\* two pairs of locations and a location on its own
PairsFeed ==
    << Rec("A", "flood", 1), Rec("B", "flood", 2), Rec("C", "fire", 3),
       Rec("D", "fire", 2), Rec("E", "storm", 3) >>

\* collections whose documents all lack a required key
ColumnlessInputs ==
    { << [location |-> "A", disaster_type |-> "flood"],
         [location |-> "B", disaster_type |-> "flood"] >>,
      << [location |-> "A"], [location |-> "B", text |-> "flood in B"] >>,
      << [text |-> "flood in A"] >>,
      << [disaster_type |-> "flood", alert_level |-> 2] >> }

\* collections with a document that lacks a key the others have
MalformedInputs ==
    { << Rec("A", "flood", 3), Rec("B", "flood", 2),
         [disaster_type |-> "flood", alert_level |-> 1] >>,
      << Rec("A", "flood", 3), Rec("B", "flood", 2),
         [location |-> "C", alert_level |-> 3] >>,
      << Rec("A", "flood", 3), [location |-> "B", alert_level |-> 2] >> }

Stamped(l, t, a, ts) ==
    [location |-> l, disaster_type |-> t, alert_level |-> a, timestamp |-> ts]

\* collections of timestamped documents
StampedInputs ==
    { << Stamped("A", "flood", 3, "yesterday"), Stamped("B", "flood", 2, "last_month"),
         Stamped("C", "flood", 1, "yesterday") >>,
      << Stamped("A", "flood", 3, "last_month"), Stamped("B", "flood", 2, "last_month") >>,
      << Stamped("A", "flood", 3, "yesterday"), Rec("B", "flood", 2) >> }

AnalyzeInputs ==
    {Pick(AlertFeed, keep, 1) :
        keep \in {K \in SUBSET (1..Len(AlertFeed)) : Cardinality(K) \in 0..MaxAnalyzed}}
    \cup {CorridorFeed, BowtieFeed, PairsFeed, TwoLevelFeed}
    \cup {SubSeq(SingleTypeFeed, 1, k) : k \in 2..Len(SingleTypeFeed)}
    \cup ColumnlessInputs \cup MalformedInputs \cup StampedInputs

InitAnalyze == \E docs \in AnalyzeInputs : ReportInit(docs)

NextAnalyze ==
    \/ FetchData
    \/ CheckData
    \/ BuildStart
    \/ ForDisaster
    \/ ForPair
    \/ ComputeCentrality
    \/ LouvainStart
    \/ MoveNode
    \/ LevelDone
    \/ ScoreRisk
    \/ ClusterSummaries
    \/ SpreadPaths
    \/ Visualize
    \/ SaveReport

SpecAnalyze == InitAnalyze /\ [][NextAnalyze]_vars

\* collections with more high-risk locations and spread paths than the
\* report keeps, next to collections with fewer
TopInputs == {TwoHubFeed, CorridorFeed, BowtieFeed, SubSeq(AlertFeed, 1, 7)}

InitTop == \E docs \in TopInputs : ReportInit(docs)

SpecTop == InitTop /\ [][NextAnalyze]_vars

\* the report generated twice from the same collections
RerunInputs ==
    {BowtieFeed, CorridorFeed, SubSeq(AlertFeed, 1, 3), SubSeq(AlertFeed, 4, 6), <<>>}

InitRerun == \E docs \in RerunInputs : ReportInit(docs)

NextRerun == NextAnalyze \/ RunAgain

SpecRerun == InitRerun /\ [][NextRerun]_vars

-----------------------------------------------------------------------------
(* Properties of the centrality tables *)

\* the simple paths of the graph from s to t, as node sequences
SimplePaths(s, t) ==
    {p \in UNION {[1..k -> Range(nodes)] : k \in 1..Len(nodes)} :
        /\ p[1] = s /\ p[Len(p)] = t
        /\ \A x, y \in 1..Len(p) : x # y => p[x] # p[y]
        /\ \A x \in 1..(Len(p) - 1) : {p[x], p[x + 1]} \in EdgeSet}

FewestHopPaths(s, t) ==
    {p \in SimplePaths(s, t) : \A q \in SimplePaths(s, t) : Len(p) <= Len(q)}

\* the fraction of fewest-hop s-t paths that pass through v
PairFraction(s, t, v) ==
    IF FewestHopPaths(s, t) = {} THEN Zero
    ELSE Frac(Cardinality({p \in FewestHopPaths(s, t) : v \in Range(p)}),
              Cardinality(FewestHopPaths(s, t)))

\* raw betweenness: the sum of the fractions over unordered pairs of other nodes
RawBetweenness(v) ==
    LET pairs == {pr \in SUBSET (Range(nodes) \ {v}) : Cardinality(pr) = 2}
        frac == [pr \in pairs |->
                    LET s == CHOOSE x \in pr : TRUE
                        t == CHOOSE y \in pr : y # s
                    IN PairFraction(s, t, v)]
    IN RSum(frac, pairs)

MetricsDone == pc = "metrics"

\* G is the path graph n1 - n2 - ... - nk over all its nodes, for some order
IsPathGraph(order) ==
    /\ Len(order) = Len(nodes) /\ Range(order) = Range(nodes)
    /\ EdgeSet = {{order[k], order[k + 1]} : k \in 1..(Len(order) - 1)}

NodeOrders == {p \in [1..Len(nodes) -> Range(nodes)] : Range(p) = Range(nodes)}

\* C5: for every node v the computed degree centrality is
\* degree(v) / (|V| - 1) when |V| > 1 and 0 when |V| <= 1, the degree
\* counting incident edges whatever their weight.
C5_DegreeCentralityValue ==
    MetricsDone =>
        \A v \in Range(nodes) :
            centrality[v] = IF Len(nodes) > 1
                            THEN Frac(Cardinality({e \in EdgeSet : v \in e}), Len(nodes) - 1)
                            ELSE Zero

\* C6: every node has 0 <= degree centrality <= 1, and the value is 0
\* exactly for the nodes without an incident edge, also in a graph of a
\* single node.
C6_DegreeCentralityRange ==
    MetricsDone =>
        \A v \in Range(nodes) :
            /\ RGe(centrality[v], Zero) /\ RGe(One, centrality[v])
            /\ (centrality[v] = Zero) <=> ({e \in EdgeSet : v \in e} = {})

\* the closed form for the i-th node of a path graph of n nodes
PathRaw(k, n) == Frac((k - 1) * (n - k), 1)

PathNormalized(k, n) == Frac(2 * (k - 1) * (n - k), (n - 1) * (n - 2))

\* C7 as stated: the betweenness of v is the raw sum over unordered pairs of
\* other nodes of the fraction of fewest-hop paths through v, with no
\* division by the number of node pairs; the i-th node of a path graph of
\* n >= 3 nodes gets (i-1)*(n-i); an isolated node gets 0.
C7_RawBetweenness ==
    MetricsDone =>
        /\ \A v \in Range(nodes) : betweenness[v] = RawBetweenness(v)
        /\ \A order \in NodeOrders :
              (Len(nodes) >= 3 /\ IsPathGraph(order)) =>
                  \A k \in 1..Len(order) : betweenness[order[k]] = PathRaw(k, Len(order))
        /\ \A v \in Range(nodes) : Degree(v) = 0 => betweenness[v] = Zero

\* C7 amended: the betweenness of v is that sum multiplied by
\* 2 / ((n-1)(n-2)) when the graph has n > 2 nodes, and the sum itself (0)
\* when n <= 2; the i-th node of a path graph of n >= 3 nodes gets
\* 2(i-1)(n-i) / ((n-1)(n-2)); an isolated node gets 0.
C7_NormalizedBetweenness ==
    MetricsDone =>
        /\ \A v \in Range(nodes) :
              betweenness[v] =
                  IF Len(nodes) > 2
                  THEN RMul(RawBetweenness(v), Frac(2, (Len(nodes) - 1) * (Len(nodes) - 2)))
                  ELSE RawBetweenness(v)
        /\ Len(nodes) <= 2 => \A v \in Range(nodes) : betweenness[v] = Zero
        /\ \A order \in NodeOrders :
              (Len(nodes) >= 3 /\ IsPathGraph(order)) =>
                  \A k \in 1..Len(order) :
                      betweenness[order[k]] = PathNormalized(k, Len(order))
        /\ \A v \in Range(nodes) : Degree(v) = 0 => betweenness[v] = Zero

\* the metrics of a path graph of four nodes
C7_Witness ==
    /\ MetricsDone
    /\ Len(nodes) = 4
    /\ \E order \in NodeOrders : IsPathGraph(order)

-----------------------------------------------------------------------------
(* Properties of the communities and of the result lists *)

CommunitiesDone == pc \in {"communities", "clusters", "spread_paths", "analyzed"}

RiskDone == pc \in {"clusters", "spread_paths", "analyzed"}

Analyzed == pc = "analyzed"

IsPartitionOf(parts, S) ==
    /\ UNION Range(parts) = S
    /\ \A k \in 1..Len(parts) : parts[k] # {}
    /\ \A k, l \in 1..Len(parts) : k # l => parts[k] \cap parts[l] = {}

\* C8: the communities returned by the detection form a partition of the
\* graph's nodes (every node in exactly one community, no empty community),
\* and the clusters listed in disaster_clusters are pairwise disjoint sets
\* of graph nodes.
C8_CommunitiesPartition ==
    /\ CommunitiesDone => IsPartitionOf(communities, Range(nodes))
    /\ Analyzed =>
          LET cl == results.disaster_clusters
          IN /\ \A k \in 1..Len(cl) : cl[k].locations \subseteq Range(nodes)
             /\ \A k, l \in 1..Len(cl) :
                   k # l => cl[k].locations \cap cl[l].locations = {}

\* an analysis whose detection merged nodes over two levels into two
\* clusters
C8_Witness ==
    /\ Analyzed
    /\ Len(communities) = 2
    /\ Len(results.disaster_clusters) = 2

PositionIn(q, x) == CHOOSE k \in 1..Len(q) : q[k] = x

\* C9: the risk list has an entry for a location iff the location is in the
\* centrality table and in the mean-alert table and
\* degree_centrality * mean_alert_level > 0.5; each entry's risk_score is
\* that product; the list is in descending risk_score order and entries
\* with equal risk_score are in the iteration order of the centrality table.
C9_RiskList ==
    RiskDone =>
        LET H == results.high_risk_locations
            product(l) == Frac(centrality[l].n * loc_alert_levels[l].n,
                               centrality[l].d * loc_alert_levels[l].d)
        IN /\ \A l \in Range(nodes) \cup Range(Column(df, "location")) :
                 (\E k \in 1..Len(H) : H[k].location = l) <=>
                     /\ l \in DOMAIN centrality
                     /\ l \in DOMAIN loc_alert_levels
                     /\ 2 * product(l).n > product(l).d
           /\ \A k, l \in 1..Len(H) : k # l => H[k].location # H[l].location
           /\ \A k \in 1..Len(H) :
                 /\ H[k].risk_score = product(H[k].location)
                 /\ H[k].centrality = centrality[H[k].location]
                 /\ H[k].alert_level = loc_alert_levels[H[k].location]
           /\ \A k, l \in 1..Len(H) :
                 k < l =>
                     /\ RGe(H[k].risk_score, H[l].risk_score)
                     /\ H[k].risk_score = H[l].risk_score =>
                           PositionIn(nodes, H[k].location) < PositionIn(nodes, H[l].location)

\* a risk list with two entries of equal score after one of a larger score
\* that comes later in the centrality table, and a location left out with a
\* score of exactly 0.5
C9_Witness ==
    /\ RiskDone
    /\ LET H == results.high_risk_locations
       IN /\ \E k, l \in 1..Len(H) : k < l /\ H[k].risk_score = H[l].risk_score
          /\ \E k, l \in 1..Len(H) :
                /\ k < l /\ RGt(H[k].risk_score, H[l].risk_score)
                /\ PositionIn(nodes, H[k].location) > PositionIn(nodes, H[l].location)
    /\ \E l \in Range(nodes) : RMul(centrality[l], loc_alert_levels[l]) = Frac(1, 2)

\* C10: the spread-path list has exactly one entry for each edge (u, v) with
\* betweenness[u] + betweenness[v] > 0.1 and no other entry; an entry's
\* betweenness is that sum, its shared_disasters the edge's disaster types,
\* its connection_strength the edge's weight; the list is in descending
\* betweenness order; the analysis leaves the edge attributes as built.
C10_SpreadPaths ==
    Analyzed =>
        LET S == results.potential_spread_paths
            sum(e) == RSum(betweenness, e)
        IN /\ \A e \in EdgeSet :
                 Cardinality({k \in 1..Len(S) : {S[k].from, S[k].to} = e}) =
                     IF 10 * sum(e).n > sum(e).d THEN 1 ELSE 0
           /\ \A k \in 1..Len(S) :
                 /\ S[k].from # S[k].to
                 /\ {S[k].from, S[k].to} \in EdgeSet
                 /\ S[k].betweenness = sum({S[k].from, S[k].to})
                 /\ S[k].shared_disasters = eattr[{S[k].from, S[k].to}].disasters
                 /\ S[k].connection_strength = eattr[{S[k].from, S[k].to}].weight
           /\ \A k, l \in 1..Len(S) : k < l => RGe(S[k].betweenness, S[l].betweenness)
           /\ \A e \in EdgeSet :
                 \E u, v \in Range(nodes) :
                     /\ e = {u, v}
                     /\ eattr[e].disasters = SharedTypes(df, u, v)
                     /\ eattr[e].weight = Cardinality(SharedTypes(df, u, v))

\* a spread-path list that leaves out an edge whose endpoints have a
\* positive betweenness, has an entry for an edge of two disaster types, and
\* puts an edge before one that precedes it in the graph's edge order
C10_Witness ==
    /\ Analyzed
    /\ LET S == results.potential_spread_paths
           edges == EdgeList(nodes, adj, 1)
       IN /\ \E e \in EdgeSet :
                /\ RGt(RSum(betweenness, e), Zero)
                /\ \A k \in 1..Len(S) : {S[k].from, S[k].to} # e
          /\ \E k \in 1..Len(S) : Cardinality(S[k].shared_disasters) = 2
          /\ \E k, l \in 1..Len(S) :
                /\ k < l /\ RGt(S[k].betweenness, S[l].betweenness)
                /\ PositionIn(edges, <<S[k].from, S[k].to>>)
                       > PositionIn(edges, <<S[l].from, S[l].to>>)

-----------------------------------------------------------------------------
(* Properties of the returned report *)

Returned == pc = "returned"

ReportReturned == pc = "returned" /\ report.kind = "dict"

\* C11: in the report, high_risk_locations is the first min(5, n) entries of
\* the descending risk list and potential_spread_paths the first min(10, m)
\* entries of the descending spread-path list, so no entry left out has a
\* strictly larger score than an entry kept; locations_analyzed is the number
\* of distinct locations, and disaster_types_analyzed lists each distinct
\* disaster type exactly once.
C11_ReportTopEntries ==
    ReportReturned =>
        LET risk == results.high_risk_locations
            paths == results.potential_spread_paths
            n == Len(risk)
            m == Len(paths)
            R == report.high_risk_locations
            P == report.potential_spread_paths
            T == report.disaster_types_analyzed
        IN /\ Len(R) = (IF n < 5 THEN n ELSE 5)
           /\ \A k \in 1..Len(R) : R[k] = risk[k]
           /\ Len(P) = (IF m < 10 THEN m ELSE 10)
           /\ \A k \in 1..Len(P) : P[k] = paths[k]
           /\ \A k \in 1..n, l \in 1..Len(R) :
                 k > Len(R) => RGe(R[l].risk_score, risk[k].risk_score)
           /\ \A k \in 1..m, l \in 1..Len(P) :
                 k > Len(P) => RGe(P[l].betweenness, paths[k].betweenness)
           /\ report.locations_analyzed = Cardinality(Range(Column(df, "location")))
           /\ Range(T) = Range(Column(df, "disaster_type"))
           /\ Len(T) = Cardinality(Range(T))

\* a report that keeps five of seven high-risk locations, the two left out
\* scoring less than one kept, and ten of eleven spread paths, from records
\* that repeat locations and disaster types
C11_Witness ==
    /\ ReportReturned
    /\ Len(results.high_risk_locations) = 7
    /\ Len(report.high_risk_locations) = 5
    /\ RGt(report.high_risk_locations[5].risk_score, results.high_risk_locations[6].risk_score)
    /\ Len(results.potential_spread_paths) = 11
    /\ Len(report.potential_spread_paths) = 10
    /\ report.locations_analyzed < Len(df)
    /\ Len(report.disaster_types_analyzed) < Len(df)

ClustersDone == pc \in {"spread_paths", "analyzed", "visualized"}

\* C12: disaster_clusters has exactly one summary for every detected
\* community of more than one location and none for a community of one; a
\* summary's id is its community's position, its size the number of its
\* locations; the list is in descending lexicographic order of
\* (size, avg_alert_level).
C12_ClusterList ==
    ClustersDone =>
        LET S == results.disaster_clusters
        IN /\ \A c \in 1..Len(communities) :
                 Cardinality({k \in 1..Len(S) : S[k].id = c - 1}) =
                     IF Cardinality(communities[c]) > 1 THEN 1 ELSE 0
           /\ \A k \in 1..Len(S) :
                 /\ S[k].id \in 0..(Len(communities) - 1)
                 /\ S[k].locations = communities[S[k].id + 1]
                 /\ S[k].size = Cardinality(S[k].locations)
                 /\ S[k].size > 1
           /\ \A k, l \in 1..Len(S) :
                 k < l => \/ S[k].size > S[l].size
                          \/ /\ S[k].size = S[l].size
                             /\ RGe(S[k].avg_alert_level, S[l].avg_alert_level)

\* a cluster list without the community of one location, whose two clusters
\* of equal size stand in the order of their alert levels, against the order
\* of their communities
C12_Witness ==
    /\ ClustersDone
    /\ \E c \in 1..Len(communities) : Cardinality(communities[c]) = 1
    /\ LET S == results.disaster_clusters
       IN /\ Len(S) = 2
          /\ S[1].size = S[2].size
          /\ RGt(S[1].avg_alert_level, S[2].avg_alert_level)
          /\ S[1].id > S[2].id

\* C13 as stated: when the input record collection is empty, the generator
\* returns a Report structure with locations_analyzed = 0, an empty
\* disaster_types_analyzed, high_risk_locations, disaster_clusters and
\* potential_spread_paths, and raises no error.
C13_EmptyReport ==
    (Returned /\ stored = <<>>) =>
        /\ report.kind = "dict"
        /\ report.locations_analyzed = 0
        /\ report.disaster_types_analyzed = <<>>
        /\ report.high_risk_locations = <<>>
        /\ report.disaster_clusters = <<>>
        /\ report.potential_spread_paths = <<>>

\* C13, amended: when the collections are empty (or nothing recent could be
\* fetched from them), the generator returns the string "No disaster data
\* available for analysis." in place of a Report, having built no graph and
\* run no analysis, visualization or save.
C13_NoDataMessage ==
    (Returned /\ (stored = <<>> \/ df = <<>>)) =>
        /\ report.kind = "str"
        /\ report.text = "No disaster data available for analysis."
        /\ DOMAIN report = {"kind", "text"}
        /\ nodes = <<>> /\ eattr = <<>>
        /\ centrality = <<>> /\ communities = <<>> /\ results = <<>>
        /\ viz_file = NoFile

\* the generator has returned from a run over empty collections
C13_Witness == Returned /\ stored = <<>> /\ df = <<>> /\ report.kind = "str"

\* the required fields no fetched record has
AbsentFields == {c \in {"location", "disaster_type", "alert_level"} : c \notin Columns(df)}

\* C14: when the fetched records lack a required field (location,
\* disaster_type or alert_level), the generator rejects the input with a
\* missing-required-field message that names exactly the absent fields, and
\* it does so before any graph is built and before analysis, visualization
\* or save runs.
C14_MissingFieldsRejected ==
    (df # <<>> /\ AbsentFields # {}) =>
        /\ pc \in {"fetched", "returned"}
        /\ nodes = <<>> /\ eattr = <<>>
        /\ centrality = <<>> /\ communities = <<>> /\ results = <<>>
        /\ viz_file = NoFile
        /\ Returned =>
              /\ report.kind = "str"
              /\ report.text = "Missing required columns: "
              /\ Range(report.columns) = AbsentFields
              /\ Len(report.columns) = Cardinality(AbsentFields)

\* a rejection that names one absent field of three
C14_Witness ==
    /\ Returned
    /\ df # <<>>
    /\ AbsentFields = {"alert_level"}
    /\ report.kind = "str"
    /\ report.columns = <<"alert_level">>

\* a fetched row that lacks a required field
Malformed(row) == row.location = NaN \/ row.disaster_type = NaN

WellFormed(frame) == SelectSeq(frame, LAMBDA row : ~Malformed(row))

\* C15: a malformed record in an otherwise valid input is not fatal: the
\* run skips that record, still produces a Report from the remaining
\* records, and the result carries the count of skipped records.
C15_MalformedSkipped ==
    (Returned /\ df # <<>> /\ AbsentFields = {} /\ WellFormed(df) # df) =>
        /\ report.kind = "dict"
        /\ report.locations_analyzed = Len(Locations(WellFormed(df)))
        /\ report.disaster_types_analyzed = DisasterTypes(WellFormed(df))
        /\ "skipped_records" \in DOMAIN report
        /\ report["skipped_records"] = Len(df) - Len(WellFormed(df))

\* the records are of one disaster type and name at least two locations
SingleTypeRecords ==
    /\ df # <<>>
    /\ AbsentFields = {}
    /\ Cardinality(Range(Column(df, "disaster_type"))) = 1
    /\ NaN \notin Range(Column(df, "disaster_type"))
    /\ Cardinality(Range(Column(df, "location"))) >= 2

GraphBuilt ==
    pc \in {"built", "metrics", "one_level", "level_done", "communities", "clusters",
            "spread_paths", "analyzed", "visualized", "returned"}

MetricsComputed ==
    pc \in {"metrics", "one_level", "level_done", "communities", "clusters",
            "spread_paths", "analyzed", "visualized", "returned"}

CommunitiesReturned ==
    pc \in {"communities", "clusters", "spread_paths", "analyzed", "visualized", "returned"}

\* C16: when all records are of one disaster type over k >= 2 distinct
\* locations, the built graph is the complete graph on those k locations
\* with every edge of weight 1, every node's degree centrality is 1, and
\* community detection returns exactly one community, of all k locations.
C16_SingleTypeClique ==
    SingleTypeRecords =>
        LET locs == Range(Column(df, "location"))
        IN /\ GraphBuilt =>
                 /\ Range(nodes) = locs
                 /\ EdgeSet = {{u, v} : u, v \in locs} \ {{u} : u \in locs}
                 /\ \A e \in EdgeSet :
                       /\ eattr[e].weight = 1
                       /\ eattr[e].disasters = Range(Column(df, "disaster_type"))
           /\ MetricsComputed => \A v \in locs : centrality[v] = One
           /\ CommunitiesReturned => communities = <<locs>>

\* the communities returned for five locations of one disaster type
C16_Witness ==
    /\ SingleTypeRecords
    /\ CommunitiesReturned
    /\ Cardinality(Range(Column(df, "location"))) = 5
    /\ Len(communities) = 1

\* a second run has returned a report, as the first run did
BothReported ==
    /\ Returned
    /\ report.kind = "dict"
    /\ prevReport.kind = "dict"

\* C17 as stated: running the full pipeline twice on the same input yields
\* identical report content: the same high_risk_locations, the same
\* disaster_clusters (membership, ids and order) and the same
\* potential_spread_paths.
C17_SameReport ==
    BothReported =>
        /\ report.high_risk_locations = prevReport.high_risk_locations
        /\ report.disaster_clusters = prevReport.disaster_clusters
        /\ report.potential_spread_paths = prevReport.potential_spread_paths

-----------------------------------------------------------------------------
(* The risk score as a function of centrality and mean alert level *)

MaxNodes == 5
MaxGroup == 3

\* the degree centralities of graphs of 2..MaxNodes nodes
CentralityValues == {Frac(k, n - 1) : k \in 0..(MaxNodes - 1), n \in 2..MaxNodes}

\* the means of 1..MaxGroup alert levels, each 1, 2 or 3 as the streaming job
\* assigns them
MeanAlertValues == UNION {{Frac(s, c) : s \in c..(3 * c)} : c \in 1..MaxGroup}

\* two locations' centralities and mean alert levels
InitRisk ==
    /\ \E c1, c2 \in {c \in CentralityValues : RGe(One, c)} :
          centrality = [l \in {"x", "y"} |-> IF l = "x" THEN c1 ELSE c2]
    /\ \E a1, a2 \in MeanAlertValues :
          loc_alert_levels = [l \in {"x", "y"} |-> IF l = "x" THEN a1 ELSE a2]
    /\ pc = "risk_inputs"
    /\ df = <<>> /\ stored = <<>>
    /\ nodes = <<>> /\ adj = <<>> /\ eattr = <<>>
    /\ d = 1 /\ i = 1 /\ j = 1
    /\ prevG = NoGraph
    /\ betweenness = <<>> /\ louv = <<>> /\ communities = <<>>
    /\ results = <<>>
    /\ viz_file = NoFile /\ report = NoReport /\ prevReport = NoReport
    /\ link_analysis_reports = <<>>
    /\ NoBatch

\* risk_score for every pairing of a centrality with a mean alert level
ScoreAll ==
    /\ pc = "risk_inputs"
    /\ results' = [l \in {"x", "y"} |->
                      [k \in {"x", "y"} |-> RiskScore(centrality[l], loc_alert_levels[k])]]
    /\ pc' = "risk_scored"
    /\ UNCHANGED <<df, bvars, rvars, ovars, centrality, betweenness, louv, communities,
                   loc_alert_levels>>

SpecRisk == InitRisk /\ [][ScoreAll]_vars

-----------------------------------------------------------------------------
(* The clusters' alert levels *)

\* C19: each cluster summary's avg_alert_level is the sum over its members
\* of the member's mean alert level (0 for a member absent from the alert
\* table) divided by its size; and as the graph and the alert table come
\* from the same records, every member is in the alert table, so that the 0
\* default is never used.
C19_AvgAlertLevel ==
    ClustersDone =>
        \A k \in 1..Len(results.disaster_clusters) :
            LET cluster == results.disaster_clusters[k]
                level(l) == IF l \in DOMAIN loc_alert_levels THEN loc_alert_levels[l] ELSE Zero
            IN /\ cluster.avg_alert_level =
                      RDiv(RSum([l \in cluster.locations |-> level(l)], cluster.locations),
                           Frac(cluster.size, 1))
               /\ \A l \in cluster.locations : l \in DOMAIN loc_alert_levels

-----------------------------------------------------------------------------
(* Louvain's modularity and termination *)

\* collections whose graphs take one and two Louvain levels
LouvainInputs ==
    {TwoLevelFeed, BowtieFeed, SubSeq(AlertFeed, 1, 3), SubSeq(AlertFeed, 1, 6),
     SubSeq(AlertFeed, 4, 9)}

InitLouvain == \E docs \in LouvainInputs : ReportInit(docs)

\* the library call runs on: an enabled step of its loops is taken
SpecLouvain == InitLouvain /\ [][NextAnalyze]_vars /\ WF_vars(MoveNode) /\ WF_vars(LevelDone)

InLouvain == pc \in {"one_level", "level_done"}

\* the modularity of the level graph's current partition
LevelModularity == Modularity(louv.graph, louv.inner)

-----------------------------------------------------------------------------
(* The report returned when it could not be saved *)

\* the fields of a report other than its timestamp and its _id
ReportFields ==
    {"locations_analyzed", "disaster_types_analyzed", "high_risk_locations",
     "disaster_clusters", "potential_spread_paths", "visualization_path"}

\* the step that ends generate_link_analysis_report with nothing inserted
SaveFailed ==
    /\ pc = "visualized"
    /\ pc' # pc
    /\ link_analysis_reports' = link_analysis_reports

\* C21: when inserting the report in link_analysis_reports fails, the function
\* still returns (no exception reaches the caller), and what it returns is a
\* report whose locations_analyzed, disaster_types_analyzed,
\* high_risk_locations (top 5), disaster_clusters, potential_spread_paths
\* (top 10) and visualization_path equal those of the report returned when
\* the insert succeeds
C21_SaveFailureSameReport ==
    [][SaveFailed =>
          /\ pc' = "returned"
          /\ report'.kind = "dict"
          /\ ReportFields \subseteq DOMAIN report'
          /\ \A f \in ReportFields :
                report'[f] = Inserted(ReportDict(df, results, viz_file))[f]]_vars

\* a report returned unsaved, from an analysis with more high-risk locations
\* and spread paths than a report keeps
C21_Witness ==
    /\ ReportReturned
    /\ link_analysis_reports = <<>>
    /\ Len(results.high_risk_locations) > TopRisk
    /\ Len(results.potential_spread_paths) > TopPaths
    /\ Len(report.high_risk_locations) = TopRisk

-----------------------------------------------------------------------------
(* daily_batch_processing of disaster_response_system.py: the four steps *)
(* and the commands they run                                             *)

\* how subprocess.run ends: the child exits with status 0, exits with another
\* status, or cannot be started because the executable is not found
\* (FileNotFoundError, which is not a CalledProcessError)
RunOutcomes == {"zero", "nonzero", "not_found"}

\* how os.makedirs ends
MakedirsOutcomes == {"ok", "os_error"}

\* the directory run_mapreduce_job returns
LocalOutput == "mapreduce_output/output_timestamp"

Call(step, cmd, outcome) == [step |-> step, cmd |-> cmd, outcome |-> outcome]

\* the analysis variables, which daily_batch_processing does not touch
NoAnalysis ==
    /\ df = <<>>
    /\ pc = "idle"
    /\ nodes = <<>> /\ adj = <<>> /\ eattr = <<>>
    /\ d = 1 /\ i = 1 /\ j = 1
    /\ prevG = NoGraph
    /\ centrality = <<>> /\ betweenness = <<>> /\ louv = <<>>
    /\ communities = <<>> /\ loc_alert_levels = <<>> /\ results = <<>>
    /\ stored = <<>>
    /\ viz_file = NoFile /\ report = NoReport /\ prevReport = NoReport
    /\ link_analysis_reports = <<>>

InitBatch ==
    /\ NoAnalysis
    /\ batch_pc = "run_tweet_scraper"
    /\ output_dir = None
    /\ launched = <<>>

\* run_tweet_scraper(): python twitter_scrapper.py with check=True; a
\* CalledProcessError is caught and logged
RunTweetScraper ==
    /\ batch_pc = "run_tweet_scraper"
    /\ \E o \in RunOutcomes :
          /\ launched' = Append(launched, Call("run_tweet_scraper", "python twitter_scrapper.py", o))
          /\ batch_pc' = IF o = "not_found" THEN "raised" ELSE "mapreduce_clean"
    /\ UNCHANGED <<output_dir, df, pc, bvars, avars, rvars>>

\* run_mapreduce_job(): hadoop fs -rm of the previous output, without check
MapReduceClean ==
    /\ batch_pc = "mapreduce_clean"
    /\ \E o \in RunOutcomes :
          /\ launched' = Append(launched, Call("run_mapreduce_job", "hadoop fs -rm", o))
          /\ batch_pc' = IF o = "not_found" THEN "raised" ELSE "mapreduce_jar"
    /\ UNCHANGED <<output_dir, df, pc, bvars, avars, rvars>>

\* run_mapreduce_job(): hadoop jar with check=True; on a CalledProcessError
\* the function returns None
MapReduceJar ==
    /\ batch_pc = "mapreduce_jar"
    /\ \E o \in RunOutcomes :
          /\ launched' = Append(launched, Call("run_mapreduce_job", "hadoop jar", o))
          /\ batch_pc' = CASE o = "zero" -> "mapreduce_makedirs"
                           [] o = "nonzero" -> "import"
                           [] o = "not_found" -> "raised"
    /\ output_dir' = None
    /\ UNCHANGED <<df, pc, bvars, avars, rvars>>

\* run_mapreduce_job(): os.makedirs of the local output directories, outside
\* any handler for OSError
MapReduceMakedirs ==
    /\ batch_pc = "mapreduce_makedirs"
    /\ \E o \in MakedirsOutcomes :
          /\ launched' = Append(launched, Call("run_mapreduce_job", "os.makedirs", o))
          /\ batch_pc' = IF o = "os_error" THEN "raised" ELSE "mapreduce_get"
    /\ UNCHANGED <<output_dir, df, pc, bvars, avars, rvars>>

\* run_mapreduce_job(): hadoop fs -get with check=True, then return output_dir
\* (None on a CalledProcessError)
MapReduceGet ==
    /\ batch_pc = "mapreduce_get"
    /\ \E o \in RunOutcomes :
          /\ launched' = Append(launched, Call("run_mapreduce_job", "hadoop fs -get", o))
          /\ batch_pc' = IF o = "not_found" THEN "raised" ELSE "import"
          /\ output_dir' = IF o = "zero" THEN LocalOutput ELSE None
    /\ UNCHANGED <<df, pc, bvars, avars, rvars>>

\* if output_dir: import_to_mongodb(output_dir), python import_to_mongodb.py
\* with check=True
ImportToMongodb ==
    /\ batch_pc = "import"
    /\ IF output_dir # None
       THEN \E o \in RunOutcomes :
               /\ launched' = Append(launched, Call("import_to_mongodb", "python import_to_mongodb.py", o))
               /\ batch_pc' = IF o = "not_found" THEN "raised" ELSE "run_link_analysis"
       ELSE /\ batch_pc' = "run_link_analysis"
            /\ UNCHANGED launched
    /\ UNCHANGED <<output_dir, df, pc, bvars, avars, rvars>>

\* run_link_analysis(): python link_analysis.py with check=True
RunLinkAnalysis ==
    /\ batch_pc = "run_link_analysis"
    /\ \E o \in RunOutcomes :
          /\ launched' = Append(launched, Call("run_link_analysis", "python link_analysis.py", o))
          /\ batch_pc' = IF o = "not_found" THEN "raised" ELSE "completed"
    /\ UNCHANGED <<output_dir, df, pc, bvars, avars, rvars>>

NextBatch ==
    \/ RunTweetScraper
    \/ MapReduceClean
    \/ MapReduceJar
    \/ MapReduceMakedirs
    \/ MapReduceGet
    \/ ImportToMongodb
    \/ RunLinkAnalysis

SpecBatch == InitBatch /\ [][NextBatch]_vars

\* the steps in the order daily_batch_processing calls them
BatchSteps ==
    <<"run_tweet_scraper", "run_mapreduce_job", "import_to_mongodb", "run_link_analysis">>

StepIndex(step) == CHOOSE k \in 1..Len(BatchSteps) : BatchSteps[k] = step

Started(step) == \E k \in 1..Len(launched) : launched[k].step = step

\* daily_batch_processing has returned or has been left by an exception
BatchEnded == batch_pc \in {"completed", "raised"}

\* C22: in every execution of daily_batch_processing the steps run in the
\* order tweet scraper, MapReduce job, MongoDB import, link analysis; the
\* import is started only if the MapReduce job returned an output
\* directory; and no execution ends, whatever the outcome of the scraper,
\* MapReduce and import steps (a missing executable included), without the
\* link-analysis step having been started
C22_BatchOrderAndLinkAnalysis ==
    /\ \A x, y \in 1..Len(launched) :
          x < y => StepIndex(launched[x].step) <= StepIndex(launched[y].step)
    /\ Started("import_to_mongodb") =>
          /\ output_dir = LocalOutput
          /\ \E k \in 1..Len(launched) :
                launched[k].cmd = "hadoop fs -get" /\ launched[k].outcome = "zero"
    /\ BatchEnded => Started("run_link_analysis")

=============================================================================
